---------------------------- MODULE Spec2Model ----------------------------
(***************************************************************************)
(* A model of the two pieces of logic of notebooks/Matching Stuff.ipynb:   *)
(* the CoNLL-U parser (parse, parse_line, parse_int_value,                 *)
(* parse_dict_value, parse_nullable_value) and the Matcher (__init__,      *)
(* match).                                                                 *)
(*                                                                         *)
(* A Python str is a sequence of one-character strings.  A Python value is *)
(* a record tagged by "kind": None, a str, an int, a bool, an OrderedDict  *)
(* (a sequence of <<key, value>> pairs in insertion order) or a list.  A   *)
(* call that ends with an exception yields the value Raise(exc); an        *)
(* exception raised inside a call propagates through its callers.          *)
(***************************************************************************)
EXTENDS Integers, Sequences, FiniteSets, TLC

VARIABLES
    pc,      \* "new": before __init__; "call": the operation has not run yet;
             \* "done": it has returned or raised
    line,    \* parse_line's argument line
    fields,  \* parse_line's and parse's argument fields
    text,    \* parse's argument text
    value,   \* parse_dict_value's argument value
    tok,     \* the name tok that match's body reads: Matcher's first parameter
    args,    \* __init__'s *args
    kwargs,  \* __init__'s **kwargs, a sequence of <<name, pattern>> in insertion order
    self,    \* the object __init__ fills: _global_patterns, _attr_patterns
    token,   \* match's parameter token
    ret      \* what the operation returned or raised

vars == <<pc, line, fields, text, value, tok, args, kwargs, self, token, ret>>

-----------------------------------------------------------------------------
(* Bounds of the model *)

\* longest line given to parse_line
MaxLineLen == 3
\* longest field list given to parse_line
MaxFields == 2
\* longest text given to parse
MaxTextLen == 5
\* longest value given to parse_dict_value
MaxValueLen == 5
\* most global patterns given to a Matcher
MaxPats == 2
\* most attribute patterns given to a Matcher
MaxAttrPats == 2

-----------------------------------------------------------------------------
(* Python values *)

None == [kind |-> "None"]
Str(s) == [kind |-> "str", s |-> s]
IntV(n) == [kind |-> "int", n |-> n]
Bool(b) == [kind |-> "bool", b |-> b]
Dict(items) == [kind |-> "dict", items |-> items]
List(elems) == [kind |-> "list", elems |-> elems]
Raise(exc) == [kind |-> "raise", exc |-> exc]
\* a variable no operation of the specification at hand reads
Unused == [kind |-> "unused"]

IsRaise(v) == v.kind = "raise"

\* all sequences over S of length at most n
SeqsUpTo(S, n) == UNION {[1..k -> S] : k \in 0..n}

-----------------------------------------------------------------------------
(* str methods *)

\* s[i:] of a Python str
Drop(s, i) == SubSeq(s, i + 1, Len(s))

\* s.startswith(p)
StartsWith(s, p) == Len(s) >= Len(p) /\ SubSeq(s, 1, Len(p)) = p

\* the characters str.strip() removes
Whitespace == {" ", "\t", "\n"}

RECURSIVE LStrip(_)
LStrip(s) == IF s # <<>> /\ Head(s) \in Whitespace THEN LStrip(Tail(s)) ELSE s

RECURSIVE RStrip(_)
RStrip(s) ==
    IF s # <<>> /\ s[Len(s)] \in Whitespace THEN RStrip(SubSeq(s, 1, Len(s) - 1)) ELSE s

\* s.strip()
Strip(s) == RStrip(LStrip(s))

\* s.split(sep) for a non-empty sep: the pieces between the occurrences of sep,
\* found left to right without overlap
RECURSIVE SplitFrom(_, _, _, _)
SplitFrom(s, sep, cur, acc) ==
    IF s = <<>> THEN Append(acc, cur)
    ELSE IF StartsWith(s, sep) THEN SplitFrom(Drop(s, Len(sep)), sep, <<>>, Append(acc, cur))
    ELSE SplitFrom(Tail(s), sep, Append(cur, Head(s)), acc)

StrSplit(s, sep) == SplitFrom(s, sep, <<>>, <<>>)

\* sub in s, for a one-character sub
Contains(s, c) == \E i \in 1..Len(s) : s[i] = c

\* the characters str.isdigit() accepts: the decimal digits and the digits that
\* are no decimals, such as the superscript two
DecimalChars == {"0", "1", "2", "3", "4", "5", "6", "7", "8", "9"}
\* "sup2" stands for the one character U+00B2, SUPERSCRIPT TWO
DigitChars == DecimalChars \cup {"sup2"}

\* s.isdigit()
IsDigit(s) == s # <<>> /\ \A i \in 1..Len(s) : s[i] \in DigitChars

DigitValue(c) ==
    CASE c = "0" -> 0 [] c = "1" -> 1 [] c = "2" -> 2 [] c = "3" -> 3 [] c = "4" -> 4
      [] c = "5" -> 5 [] c = "6" -> 6 [] c = "7" -> 7 [] c = "8" -> 8 [] c = "9" -> 9

RECURSIVE DecimalValue(_)
DecimalValue(s) ==
    IF s = <<>> THEN 0
    ELSE 10 * DecimalValue(SubSeq(s, 1, Len(s) - 1)) + DigitValue(s[Len(s)])

\* int(s) of a str without sign or spaces: the number when every character is a
\* decimal digit, ValueError otherwise
PyInt(s) ==
    IF s # <<>> /\ \A i \in 1..Len(s) : s[i] \in DecimalChars
    THEN IntV(DecimalValue(s))
    ELSE Raise("ValueError")

\* the length of the run of spaces s starts with
RECURSIVE SpaceRun(_)
SpaceRun(s) == IF s # <<>> /\ Head(s) = " " THEN 1 + SpaceRun(Tail(s)) ELSE 0

\* re.split(r"\t| {2,}", s): at each place a tab, or else a whole run of two
\* or more spaces, ends the column
RECURSIVE ReSplitFrom(_, _, _)
ReSplitFrom(s, cur, acc) ==
    IF s = <<>> THEN Append(acc, cur)
    ELSE IF Head(s) = "\t" THEN ReSplitFrom(Tail(s), <<>>, Append(acc, cur))
    ELSE IF SpaceRun(s) >= 2 THEN ReSplitFrom(Drop(s, SpaceRun(s)), <<>>, Append(acc, cur))
    ELSE ReSplitFrom(Tail(s), Append(cur, Head(s)), acc)

ReSplit(s) == ReSplitFrom(s, <<>>, <<>>)

-----------------------------------------------------------------------------
(* OrderedDict *)

\* d[key] = val: a key already present keeps its place and takes the new value
DictSet(items, key, val) ==
    IF \E i \in 1..Len(items) : items[i][1] = key
    THEN [i \in 1..Len(items) |-> IF items[i][1] = key THEN <<key, val>> ELSE items[i]]
    ELSE Append(items, <<key, val>>)

\* OrderedDict(pairs)
RECURSIVE DictFrom(_, _)
DictFrom(pairs, items) ==
    IF pairs = <<>> THEN items
    ELSE DictFrom(Tail(pairs), DictSet(items, Head(pairs)[1], Head(pairs)[2]))

\* the first element of a sequence of values that is a raised exception
FirstRaise(vs) == vs[CHOOSE i \in 1..Len(vs) : IsRaise(vs[i]) /\ \A j \in 1..(i - 1) : ~IsRaise(vs[j])]

AnyRaise(vs) == \E i \in 1..Len(vs) : IsRaise(vs[i])

-----------------------------------------------------------------------------
(* The CoNLL-U parser *)

DEFAULT_FIELDS ==
    <<"id", "form", "lemma", "upostag", "xpostag", "feats", "head", "deprel", "deps", "misc">>

parse_nullable_value(v) ==
    IF v = <<>> \/ v = <<"_">> THEN None ELSE Str(v)

\* parse_int_value without the conversion: the digits are returned as they are
parse_int_value_unconverted(v) ==
    IF IsDigit(v) THEN Str(v) ELSE None

parse_int_value(v) ==
    IF IsDigit(v) THEN PyInt(v) ELSE None

\* part.split("=")[1] is out of range when the part holds no "="
HasIndex1(part) == Len(StrSplit(part, <<"=">>)) >= 2

\* one element of parse_dict_value's list: part.split("=")[0] and
\* parse_nullable_value(part.split("=")[1])
DictPair(part) ==
    LET kv == StrSplit(part, <<"=">>)
    IN  <<kv[1], parse_nullable_value(kv[2])>>

parse_dict_value(v) ==
    IF Contains(v, "=")
    THEN LET parts == StrSplit(v, <<"|">>)
         IN  IF \E i \in 1..Len(parts) : ~HasIndex1(parts[i])
             THEN Raise("IndexError")
             ELSE Dict(DictFrom([i \in 1..Len(parts) |-> DictPair(parts[i])], <<>>))
    ELSE parse_nullable_value(v)

\* the value parse_line gives a field from its raw column
FieldValue(field, raw) ==
    CASE field = "id" -> parse_int_value(raw)
      [] field = "xpostag" -> parse_nullable_value(raw)
      [] field = "feats" -> parse_dict_value(raw)
      [] field = "head" -> parse_int_value(raw)
      [] field = "deps" -> parse_nullable_value(raw)
      [] field = "misc" -> parse_dict_value(raw)
      [] OTHER -> Str(raw)

\* parse_line's loop from index i on, with the columns cols and the record data
RECURSIVE LineLoop(_, _, _, _)

\* the loop without its "if i >= len(line): break": line[i] is out of range
\* once the columns run out
LineLoop_without_break(cols, flds, i, data) ==
    IF i > Len(flds) THEN Dict(data)
    ELSE IF i > Len(cols) THEN Raise("IndexError")
    ELSE LET v == FieldValue(flds[i], cols[i])
         IN  IF IsRaise(v) THEN v
             ELSE LineLoop(cols, flds, i + 1, DictSet(data, flds[i], v))

LineLoop(cols, flds, i, data) ==
    IF i > Len(flds) \/ i > Len(cols) THEN Dict(data)
    ELSE LET v == FieldValue(flds[i], cols[i])
         IN  IF IsRaise(v) THEN v
             ELSE LineLoop(cols, flds, i + 1, DictSet(data, flds[i], v))

parse_line(l, flds) == LineLoop(ReSplit(l), flds, 1, <<>>)

\* the lines of a sentence that parse keeps
KeptLines(sentence) ==
    SelectSeq(StrSplit(sentence, <<"\n">>),
              LAMBDA l : l # <<>> /\ ~StartsWith(Strip(l), <<"#">>))

\* parse's inner list for one sentence
ParseSentence(sentence, flds) ==
    LET ls == KeptLines(sentence)
        recs == [i \in 1..Len(ls) |-> parse_line(ls[i], flds)]
    IN  IF AnyRaise(recs) THEN FirstRaise(recs) ELSE List(recs)

parse(t, flds) ==
    LET sentences == SelectSeq(StrSplit(t, <<"\n", "\n">>), LAMBDA s : s # <<>>)
        groups == [i \in 1..Len(sentences) |-> ParseSentence(sentences[i], flds)]
    IN  IF AnyRaise(groups) THEN FirstRaise(groups) ELSE List(groups)

-----------------------------------------------------------------------------
(* The inputs of the parser *)

\* the characters of the lines given to parse_line
LineChars == {"\t", " ", "1", "sup2", "_", "=", "|"}

\* the characters of the values given to parse_dict_value
ValueChars == {"a", "=", "|", "_"}

\* the characters of the texts given to parse
TextChars == {"\n", "a", "#", " "}

RECURSIVE Reverse(_)
Reverse(s) == IF s = <<>> THEN <<>> ELSE Append(Reverse(Tail(s)), Head(s))

\* the runs of at most MaxFields consecutive names of s
Windows(s) ==
    {SubSeq(s, i, j) : i \in 1..(Len(s) + 1), j \in 0..Len(s)} \cap SeqsUpTo({s[i] : i \in 1..Len(s)}, MaxFields)

\* the field lists given to parse_line: runs of the default fields, forwards and
\* backwards, and a name given twice
FieldLists ==
    Windows(DEFAULT_FIELDS) \cup Windows(Reverse(DEFAULT_FIELDS))
        \cup {<<DEFAULT_FIELDS[i], DEFAULT_FIELDS[i]>> : i \in 1..Len(DEFAULT_FIELDS)}

-----------------------------------------------------------------------------
(* parse_line(line, fields) *)

InitLine ==
    /\ pc = "call"
    /\ line \in SeqsUpTo(LineChars, MaxLineLen)
    /\ fields \in FieldLists
    /\ text = Unused /\ value = Unused /\ tok = Unused /\ args = Unused
    /\ kwargs = Unused /\ self = Unused /\ token = Unused
    /\ ret = Unused

ParseLine ==
    /\ pc = "call"
    /\ ret' = parse_line(line, fields)
    /\ pc' = "done"
    /\ UNCHANGED <<line, fields, text, value, tok, args, kwargs, self, token>>

NextLine == ParseLine

SpecLine == InitLine /\ [][NextLine]_vars

-----------------------------------------------------------------------------
(* parse_dict_value(value) *)

InitDict ==
    /\ pc = "call"
    /\ value \in SeqsUpTo(ValueChars, MaxValueLen)
    /\ line = Unused /\ fields = Unused /\ text = Unused /\ tok = Unused /\ args = Unused
    /\ kwargs = Unused /\ self = Unused /\ token = Unused
    /\ ret = Unused

ParseDictValue ==
    /\ pc = "call"
    /\ ret' = parse_dict_value(value)
    /\ pc' = "done"
    /\ UNCHANGED <<line, fields, text, value, tok, args, kwargs, self, token>>

NextDict == ParseDictValue

SpecDict == InitDict /\ [][NextDict]_vars

-----------------------------------------------------------------------------
(* parse(text), with the default fields *)

InitParse ==
    /\ pc = "call"
    /\ text \in SeqsUpTo(TextChars, MaxTextLen)
    /\ fields = DEFAULT_FIELDS
    /\ line = Unused /\ value = Unused /\ tok = Unused /\ args = Unused
    /\ kwargs = Unused /\ self = Unused /\ token = Unused
    /\ ret = Unused

Parse ==
    /\ pc = "call"
    /\ ret' = parse(text, fields)
    /\ pc' = "done"
    /\ UNCHANGED <<line, fields, text, value, tok, args, kwargs, self, token>>

NextParse == Parse

SpecParse == InitParse /\ [][NextParse]_vars

-----------------------------------------------------------------------------
(* Tokens and patterns *)

\* a token of the pipeline: an object with a text and named attributes
Token(id) == [kind |-> "token", id |-> id]

Tokens == {Token("The"), Token("fox")}

\* the names of the attributes a token has
TokenAttrNames == {<<"i">>, <<"p", "o", "s">>}

\* the value of attribute name of token t
AttrValue(t, name) ==
    IF name = <<"i">> THEN (IF t.id = "The" THEN IntV(0) ELSE IntV(3))
    ELSE IF t.id = "The" THEN Str(<<"D", "E", "T">>) ELSE Str(<<"N", "O", "U", "N">>)

\* a function of one argument: yes holds the arguments it is true of
Fn(yes) == [kind |-> "fn", yes |-> yes]
\* re.compile(sub) for a pattern without special characters
Regex(sub) == [kind |-> "re", sub |-> sub]
\* a set
SetOf(elems) == [kind |-> "set", elems |-> elems]

\* the patterns given to a Matcher: None, a bool, a function, a compiled regular
\* expression, a set, or any other value (here a token)
Patterns ==
    {None, Bool(TRUE), Bool(FALSE), Fn({}), Fn({Token("The")}), Regex(<<"o">>),
     SetOf({}), SetOf({Token("The"), IntV(0)}), Token("The")}

\* the names of the attribute patterns given to a Matcher
KwNames == TokenAttrNames \cup {<<"x", "y">>}

-----------------------------------------------------------------------------
(* Matcher *)

\* isinstance(pat, collections.Callable)
IsCallable(pat) == pat.kind = "fn"
\* hasattr(pat, 'match')
HasMatch(pat) == pat.kind = "re"
\* hasattr(pat, '__iter__')
HasIter(pat) == pat.kind = "set"
\* pat(x)
Call(pat, x) == x \in pat.yes

\* the loop body goes on to the next pattern
Pass == [kind |-> "pass"]

\* tok.__getattr__(attr)
GetAttr(t, attr) ==
    IF attr \in TokenAttrNames THEN AttrValue(t, attr) ELSE Raise("AttributeError")

\* the body of match's first loop for one global pattern.  A bool that is True
\* falls out of the first if statement into the second, which ends in the
\* comparison with the token.  The body reads tok, and on a compiled regular
\* expression it reads arg, a name nothing binds.
GlobalStep(pat) ==
    IF pat = None THEN Bool(FALSE)
    ELSE IF pat.kind = "bool" /\ ~pat.b THEN Bool(FALSE)
    ELSE IF IsCallable(pat) THEN (IF ~Call(pat, tok) THEN Bool(FALSE) ELSE Pass)
    ELSE IF HasMatch(pat) THEN Raise("NameError")
    ELSE IF HasIter(pat) THEN (IF tok \notin pat.elems THEN Bool(FALSE) ELSE Pass)
    ELSE IF tok # pat THEN Bool(FALSE) ELSE Pass

RECURSIVE GlobalLoop(_)
GlobalLoop(pats) ==
    IF pats = <<>> THEN Pass
    ELSE LET r == GlobalStep(Head(pats))
         IN  IF r = Pass THEN GlobalLoop(Tail(pats)) ELSE r

\* the body of match's second loop once attr and pat are bound: after the test
\* for a callable it reads arg, a name nothing binds
AttrStep(attr, pat) ==
    IF IsCallable(pat)
    THEN LET v == GetAttr(tok, attr)
         IN  IF IsRaise(v) THEN v
             ELSE IF ~Call(pat, v) THEN Bool(FALSE) ELSE Pass
    ELSE Raise("NameError")

\* match's second loop.  Iterating the dict gives its keys; "attr, pat = key"
\* unpacks a key of two characters into its characters and fails on any other.
RECURSIVE AttrLoop(_)
AttrLoop(items) ==
    IF items = <<>> THEN Pass
    ELSE LET key == Head(items)[1]
         IN  IF Len(key) # 2 THEN Raise("ValueError")
             ELSE LET r == AttrStep(<<key[1]>>, Str(<<key[2]>>))
                  IN  IF r = Pass THEN AttrLoop(Tail(items)) ELSE r

\* match(self, token): the body never reads its parameter token
match(slf, tkn) ==
    LET g == GlobalLoop(slf._global_patterns)
    IN  IF g # Pass THEN g
        ELSE LET a == AttrLoop(slf._attr_patterns)
             IN  IF a # Pass THEN a ELSE Bool(TRUE)

-----------------------------------------------------------------------------
(* Matcher: __init__(self, *args, **kwargs), then match(self, token) *)

KwArgs ==
    {kw \in SeqsUpTo(KwNames \X Patterns, MaxAttrPats) :
        \A i, j \in 1..Len(kw) : i # j => kw[i][1] # kw[j][1]}

InitMatcher ==
    /\ pc = "new"
    /\ tok \in Tokens
    /\ token \in Tokens
    /\ args \in SeqsUpTo(Patterns, MaxPats)
    /\ kwargs \in KwArgs
    /\ self = Unused
    /\ line = Unused /\ fields = Unused /\ text = Unused /\ value = Unused
    /\ ret = Unused

MatcherInit ==
    /\ pc = "new"
    /\ self' = [_global_patterns |-> args, _attr_patterns |-> kwargs]
    /\ pc' = "call"
    /\ UNCHANGED <<line, fields, text, value, tok, args, kwargs, token, ret>>

MatcherMatch ==
    /\ pc = "call"
    /\ ret' = match(self, token)
    /\ pc' = "done"
    /\ UNCHANGED <<line, fields, text, value, tok, args, kwargs, self, token>>

NextMatcher == MatcherInit \/ MatcherMatch

SpecMatcher == InitMatcher /\ [][NextMatcher]_vars

-----------------------------------------------------------------------------
(* What the claims speak of *)

Min(a, b) == IF a <= b THEN a ELSE b

\* s without the later occurrences of its elements
RECURSIVE Dedupe(_)
Dedupe(s) ==
    IF s = <<>> THEN <<>>
    ELSE LET front == Dedupe(SubSeq(s, 1, Len(s) - 1))
             last == s[Len(s)]
         IN  IF \E i \in 1..Len(front) : front[i] = last THEN front ELSE Append(front, last)

\* the keys of an OrderedDict in order
Keys(d) == [j \in 1..Len(d.items) |-> d.items[j][1]]

\* raw consists entirely of decimal digits
AllDecimal(raw) == raw # <<>> /\ \A i \in 1..Len(raw) : raw[i] \in DecimalChars

\* the nullable rule: empty or "_" is None, anything else is kept
NullableRule(raw) == IF raw \in {<<>>, <<"_">>} THEN None ELSE Str(raw)

\* the raw columns of the line at hand, and how many of them are paired with a field
Columns == ReSplit(line)
Paired == Min(Len(fields), Len(Columns))

\* the index of the raw column that the record's field f was last assigned from
ColumnOf(f) ==
    CHOOSE i \in 1..Paired : fields[i] = f /\ \A i2 \in (i + 1)..Paired : fields[i2] # f

Returned == pc = "done" /\ ret.kind = "dict"

-----------------------------------------------------------------------------
(* C1: the parser never raises: parse_line returns a result for every line  *)
(* and every field list.                                                    *)
C1_ParserNeverRaises == pc = "done" => ~IsRaise(ret)

(* C2: in the record parse_line returns, id and head hold the integer value *)
(* of the raw column when it consists entirely of decimal digits and None   *)
(* otherwise; xpostag and deps hold None when the raw column is empty or    *)
(* "_" and the raw column otherwise; every field other than id, head,       *)
(* xpostag, deps, feats and misc holds the raw column unchanged.            *)
C2_FieldDecoding ==
    Returned =>
        \A j \in 1..Len(ret.items) :
            LET f == ret.items[j][1]
                v == ret.items[j][2]
            IN  /\ \E i \in 1..Paired : fields[i] = f
                /\ LET raw == Columns[ColumnOf(f)]
                   IN  CASE f \in {"id", "head"} ->
                                v = IF AllDecimal(raw) THEN IntV(DecimalValue(raw)) ELSE None
                          [] f \in {"xpostag", "deps"} -> v = NullableRule(raw)
                          [] f \in {"feats", "misc"} -> TRUE
                          [] OTHER -> v = Str(raw)

\* a record with an id read as an integer and a "_" kept as it is in form
C2_Witness ==
    /\ pc = "done"
    /\ fields = <<"id", "form">>
    /\ ret = Dict(<<<<"id", IntV(1)>>, <<"form", Str(<<"_">>)>>>>)

(* C3: parse_line pairs fields with raw columns by position: the keys of    *)
(* the returned record are the first min(n, m) field names in field-list    *)
(* order, for n fields and m raw columns; neither a line with fewer columns *)
(* than fields nor one with more is rejected: parse_line ends with an error *)
(* only when the decoding of a paired column does.                          *)
C3_PositionalPairing ==
    pc = "done" =>
        /\ ret.kind \in {"dict", "raise"}
        /\ ret.kind = "dict" => Keys(ret) = Dedupe(SubSeq(fields, 1, Paired))
        /\ IsRaise(ret) => \E i \in 1..Paired : IsRaise(FieldValue(fields[i], Columns[i]))

\* a line with fewer columns than fields gave a partial record
C3_Witness ==
    /\ Returned
    /\ Len(Columns) < Len(fields)
    /\ Keys(ret) = SubSeq(fields, 1, Len(Columns))
    /\ Len(ret.items) >= 1

(* C4: parse_dict_value(value): when value contains "=", the result is an   *)
(* ordered mapping with one entry per "|"-separated key=value pair, in      *)
(* order of appearance, from the key to the pair's value decoded by the     *)
(* nullable rule; when value contains no "=", the result is the nullable    *)
(* rule applied to the whole value.                                         *)
C4_DictValue ==
    pc = "done" =>
        IF Contains(value, "=")
        THEN LET parts == StrSplit(value, <<"|">>)
             IN  /\ ret.kind = "dict"
                 /\ Len(ret.items) = Len(parts)
                 /\ \A i \in 1..Len(parts) :
                        LET kv == StrSplit(parts[i], <<"=">>)
                        IN  ret.items[i] = <<kv[1], NullableRule(kv[2])>>
        ELSE ret = NullableRule(value)

\* the length of the run of newlines s starts with
RECURSIVE NewlineRun(_)
NewlineRun(s) == IF s # <<>> /\ Head(s) = "\n" THEN 1 + NewlineRun(Tail(s)) ELSE 0

\* the blocks of a text cut at every run of two or more newlines
RECURSIVE BlocksFrom(_, _, _)
BlocksFrom(s, cur, acc) ==
    IF s = <<>> THEN Append(acc, cur)
    ELSE IF NewlineRun(s) >= 2 THEN BlocksFrom(Drop(s, NewlineRun(s)), <<>>, Append(acc, cur))
    ELSE BlocksFrom(Tail(s), Append(cur, Head(s)), acc)

NonEmptyBlocks(t) == SelectSeq(BlocksFrom(t, <<>>, <<>>), LAMBDA b : b # <<>>)

\* the lines of a block that are not empty and are no comment
RecordLines(block) ==
    SelectSeq(StrSplit(block, <<"\n">>),
              LAMBDA l : l # <<>> /\ (Strip(l) = <<>> \/ Head(Strip(l)) # "#"))

(* C5: parse(text) cuts text into blocks at every run of two or more        *)
(* newlines and returns, in order, one group per non-empty block, each      *)
(* holding in order one record per line of the block that is not empty and  *)
(* whose trimmed content does not start with "#"; a run of three or more    *)
(* newlines, or newlines at the end of the text, add no group.              *)
C5_SentenceGroups ==
    pc = "done" =>
        LET blocks == NonEmptyBlocks(text)
        IN  ret = List([i \in 1..Len(blocks) |->
                    LET ls == RecordLines(blocks[i])
                    IN  List([j \in 1..Len(ls) |-> parse_line(ls[j], fields)])])

-----------------------------------------------------------------------------
Matched == pc = "done" /\ self # Unused

(* C6: when the global patterns hold None or False, match(token) returns    *)
(* false, whatever the other patterns are and wherever they stand.          *)
C6_NoneOrFalseNeverMatches ==
    (Matched /\ \E i \in 1..Len(self._global_patterns) :
                    self._global_patterns[i] \in {None, Bool(FALSE)})
        => ret = Bool(FALSE)

\* the Matcher at hand without the global patterns that are True
WithoutTrue ==
    [self EXCEPT !._global_patterns = SelectSeq(@, LAMBDA p : p # Bool(TRUE))]

(* C7: a global pattern True is satisfied for every token: a Matcher whose  *)
(* only pattern is the global pattern True returns true for every token,    *)
(* and a True among the patterns never changes the result.                  *)
C7_TrueIsSatisfied ==
    /\ (Matched /\ self._global_patterns = <<Bool(TRUE)>> /\ self._attr_patterns = <<>>)
            => ret = Bool(TRUE)
    /\ Matched => ret = match(WithoutTrue, token)

(* C8: with a set S as the single global pattern and no attribute patterns, *)
(* match(t) returns the value of "t in S".                                  *)
C8_MembershipSet ==
    (Matched /\ Len(self._global_patterns) = 1 /\ self._global_patterns[1].kind = "set"
             /\ self._attr_patterns = <<>>)
        => ret = Bool(token \in self._global_patterns[1].elems)

\* str(v) of an attribute value: a str, or an int below ten
PyStr(v) ==
    IF v.kind = "str" THEN v.s
    ELSE <<(<<"0", "1", "2", "3", "4", "5", "6", "7", "8", "9">>)[v.n + 1]>>

\* pat.search(s) finds sub somewhere in s
Search(sub, s) == \E i \in 1..(Len(s) - Len(sub) + 1) : SubSeq(s, i, i + Len(sub) - 1) = sub

\* an attribute pattern is satisfied by the attribute's value v
Satisfied(pat, v) ==
    CASE pat.kind = "fn" -> v \in pat.yes
      [] pat.kind = "re" -> Search(pat.sub, PyStr(v))
      [] pat.kind = "set" -> v \in pat.elems
      [] OTHER -> v = pat

(* C9: with no global patterns and attribute patterns whose attributes all  *)
(* exist on the token, match(token) returns true if and only if every       *)
(* (attribute, pattern) pair is satisfied by the token's attribute value,   *)
(* and false otherwise.                                                     *)
C9_AttributePatterns ==
    (Matched /\ self._global_patterns = <<>> /\ self._attr_patterns # <<>>
             /\ \A i \in 1..Len(self._attr_patterns) :
                    self._attr_patterns[i][1] \in TokenAttrNames)
        => ret = Bool(\A i \in 1..Len(self._attr_patterns) :
                        Satisfied(self._attr_patterns[i][2],
                                  AttrValue(token, self._attr_patterns[i][1])))

(* C10: when an attribute pattern names an attribute the token does not     *)
(* have and every earlier pattern was satisfied, match(token) ends with the *)
(* attribute-not-found error of the lookup.                                 *)
C10_MissingAttributeRaises ==
    (Matched /\ self._global_patterns = <<>> /\ self._attr_patterns # <<>>
             /\ self._attr_patterns[1][1] \notin TokenAttrNames)
        => ret = Raise("AttributeError")

=============================================================================
